---- MODULE Spec2Model ----
(***************************************************************************)
(* Event CRUD API (Express + Mongoose): the eight handlers of src/app.js   *)
(* over one collection of Event documents.                                 *)
(*                                                                         *)
(* JavaScript values are records [k, n, f, s]:                             *)
(*   k = "num"   a number n.f (n the integer part, f one decimal digit)    *)
(*   k = "str"   a string s, a sequence of ASCII codes                     *)
(*   k = "null", "undef" (a field absent from the body), "nan"             *)
(* Strings are code sequences so that parseInt, Number() and the store's   *)
(* string comparison are computed the way the runtime computes them.       *)
(***************************************************************************)
EXTENDS Integers, Sequences, FiniteSets

VARIABLES store, now, last, gone, inflight, answered, order, run

vars == <<store, now, last, gone, inflight, answered, order, run>>

----------------------------------------------------------------------------
(* JavaScript values *)

Num(n, f) == [k |-> "num", n |-> n, f |-> f, s |-> <<>>]
Whole(n)    == Num(n, 0)
Str(s)    == [k |-> "str", n |-> 0, f |-> 0, s |-> s]
Null      == [k |-> "null", n |-> 0, f |-> 0, s |-> <<>>]
Undef     == [k |-> "undef", n |-> 0, f |-> 0, s |-> <<>>]
NaN       == [k |-> "nan", n |-> 0, f |-> 0, s |-> <<>>]

IsDigit(ch) == ch >= 48 /\ ch <= 57
IsSpace(ch) == ch = 32

RECURSIVE TrimLeft(_)
TrimLeft(s) ==
  IF s # <<>> /\ IsSpace(Head(s)) THEN TrimLeft(Tail(s)) ELSE s

RECURSIVE TrimRight(_)
TrimRight(s) ==
  IF s # <<>> /\ IsSpace(s[Len(s)]) THEN TrimRight(SubSeq(s, 1, Len(s) - 1)) ELSE s

\* the longest prefix of s made of decimal digits
RECURSIVE DigitPrefix(_)
DigitPrefix(s) ==
  IF s # <<>> /\ IsDigit(Head(s)) THEN <<Head(s)>> \o DigitPrefix(Tail(s)) ELSE <<>>

\* the value of a sequence of decimal digits
RECURSIVE DigitsValue(_)
DigitsValue(ds) ==
  IF ds = <<>> THEN 0
  ELSE 10 * DigitsValue(SubSeq(ds, 1, Len(ds) - 1)) + (ds[Len(ds)] - 48)

\* the decimal digits of a natural number
RECURSIVE DigitsOf(_)
DigitsOf(n) ==
  IF n < 10 THEN <<48 + n>> ELSE DigitsOf(n \div 10) \o <<48 + (n % 10)>>

\* String(v) of a number: "1" for 1, "1.5" for 1.5
NumberToString(v) ==
  IF v.f = 0 THEN DigitsOf(v.n) ELSE DigitsOf(v.n) \o <<46, 48 + v.f>>

\* ToString(v), as parseInt applies it to its argument
JsToString(v) ==
  CASE v.k = "str"   -> v.s
    [] v.k = "num"   -> NumberToString(v)
    [] v.k = "null"  -> <<110, 117, 108, 108>>
    [] v.k = "undef" -> <<117, 110, 100, 101, 102, 105, 110, 101, 100>>
    [] OTHER         -> <<78, 97, 78>>

\* parseInt(v): leading white space skipped, then the longest run of digits;
\* what follows the digits is ignored; NaN when there is no digit
parseInt(v) ==
  LET ds == DigitPrefix(TrimLeft(JsToString(v)))
  IN  IF ds = <<>> THEN NaN ELSE Whole(DigitsValue(ds))

\* Number(s) of a string: the whole trimmed string must be a decimal literal
\* (digits, optionally "." and one digit); the empty string is 0
NumberOfString(s) ==
  LET t    == TrimRight(TrimLeft(s))
      ds   == DigitPrefix(t)
      rest == SubSeq(t, Len(ds) + 1, Len(t))
  IN  IF t = <<>> THEN Whole(0)
      ELSE IF ds = <<>> THEN NaN
      ELSE IF rest = <<>> THEN Whole(DigitsValue(ds))
      ELSE IF Len(rest) = 2 /\ rest[1] = 46 /\ IsDigit(rest[2])
           THEN Num(DigitsValue(ds), rest[2] - 48)
      ELSE NaN

\* a !== b on primitives: NaN differs from everything, itself included
StrictNotEqual(a, b) == a.k = "nan" \/ b.k = "nan" \/ a # b

----------------------------------------------------------------------------
(* The schema: eventSchema *)

NumberFields == {"eventID", "month", "day", "year", "pax"}
StringFields == {"eventName", "client", "type", "venue", "startTime"}
SchemaFields == NumberFields \cup StringFields

CastError == [k |-> "casterror", n |-> 0, f |-> 0, s |-> <<>>]

\* mongoose's cast to Number: null and undefined pass through, "" becomes
\* null, any other string goes through Number(); NaN does not cast
castNumber(v) ==
  CASE v.k \in {"null", "undef"} -> v
    [] v.k = "str" /\ v.s = <<>> -> Null
    [] v.k = "str" -> (LET x == NumberOfString(v.s)
                       IN  IF x.k = "nan" THEN CastError ELSE x)
    [] v.k = "num" -> v
    [] OTHER -> CastError

\* mongoose's cast to String: a number becomes its decimal text
castString(v) ==
  CASE v.k \in {"null", "undef", "str"} -> v
    [] v.k = "num" -> Str(NumberToString(v))
    [] OTHER -> CastError

SchemaCast(f, v) == IF f \in NumberFields THEN castNumber(v) ELSE castString(v)

\* the body with every schema path cast to its type
CastBody(body) == [f \in SchemaFields |-> SchemaCast(f, body[f])]

HasCastError(cast) == \E f \in SchemaFields : cast[f].k = "casterror"

\* required: true. A Number path needs a number, a String path a string of
\* length > 0
checkRequired(f, v) ==
  IF f \in NumberFields THEN v.k = "num" ELSE v.k = "str" /\ Len(v.s) > 0

\* document validation as save() runs it
ValidationFails(cast) ==
  \/ HasCastError(cast)
  \/ \E f \in SchemaFields : ~checkRequired(f, cast[f])

\* a mutation of the schema without timestamps: createdAt is never assigned
StampNoCreatedAt(fields, created, updated) ==
  [f \in SchemaFields \cup {"createdAt", "updatedAt"} |->
     IF f = "createdAt" THEN Undef
     ELSE IF f = "updatedAt" THEN Whole(updated)
     ELSE fields[f]]

\* timestamps: true
Stamp(fields, created, updated) ==
  [f \in SchemaFields \cup {"createdAt", "updatedAt"} |->
     IF f = "createdAt" THEN Whole(created)
     ELSE IF f = "updatedAt" THEN Whole(updated)
     ELSE fields[f]]

----------------------------------------------------------------------------
(* The collection: a set of documents with a unique index on eventID *)

IDsOf(S) == {d.eventID : d \in S}

Matching(S, f, v) == {d \in S : d[f] = v}

\* a mutation of the unique index that never reports a duplicate key
DuplicateKeyNoIndex(S, id) == FALSE

\* unique: true on eventID -> error code 11000
DuplicateKey(S, id) == \E d \in S : d.eventID = id

\* a mutation of the update that replaces the document: a path absent from
\* the body is cleared
ApplyReplace(d, cast, t) ==
  [f \in DOMAIN d |->
     IF f = "updatedAt" THEN Whole(t)
     ELSE IF f = "createdAt" THEN d[f]
     ELSE IF f = "eventID" /\ cast[f].k = "undef" THEN d[f]
     ELSE IF cast[f].k = "undef" THEN Null
     ELSE cast[f]]

\* the $set that mongoose sends for an update document: the paths present in
\* the body, cast; updatedAt is added by timestamps: true
ApplySet(d, cast, t) ==
  [f \in DOMAIN d |->
     IF f = "updatedAt" THEN Whole(t)
     ELSE IF f = "createdAt" THEN d[f]
     ELSE IF cast[f].k = "undef" THEN d[f]
     ELSE cast[f]]

\* BSON comparison order of the values a sort key can hold:
\* null < numbers < strings; numbers by value, strings by code unit
TypeRank(v) == CASE v.k = "null" -> 0 [] v.k = "num" -> 1 [] OTHER -> 2

RECURSIVE StringLess(_, _)
StringLess(a, b) ==
  IF b = <<>> THEN FALSE
  ELSE IF a = <<>> THEN TRUE
  ELSE IF Head(a) # Head(b) THEN Head(a) < Head(b)
  ELSE StringLess(Tail(a), Tail(b))

ValueLess(a, b) ==
  IF TypeRank(a) # TypeRank(b) THEN TypeRank(a) < TypeRank(b)
  ELSE CASE a.k = "num" -> a.n < b.n \/ (a.n = b.n /\ a.f < b.f)
         [] a.k = "str" -> StringLess(a.s, b.s)
         [] OTHER -> FALSE

\* a mutation of the sort specification that leaves out the month
SortKeysNoMonth == <<"year", "day", "startTime">>

\* .sort({ year: 1, month: 1, day: 1, startTime: 1 })
SortKeys == <<"year", "month", "day", "startTime">>

RECURSIVE KeyLess(_, _, _)
KeyLess(a, b, keys) ==
  IF keys = <<>> THEN FALSE
  ELSE IF ValueLess(a[Head(keys)], b[Head(keys)]) THEN TRUE
  ELSE IF ValueLess(b[Head(keys)], a[Head(keys)]) THEN FALSE
  ELSE KeyLess(a, b, Tail(keys))

\* insertion of d into a sequence already in order
RECURSIVE InsertSorted(_, _, _)
InsertSorted(d, seq, keys) ==
  IF seq = <<>> THEN <<d>>
  ELSE IF KeyLess(d, Head(seq), keys) THEN <<d>> \o seq
  ELSE <<Head(seq)>> \o InsertSorted(d, Tail(seq), keys)

RECURSIVE SortBy(_, _)
SortBy(seq, keys) ==
  IF seq = <<>> THEN <<>>
  ELSE InsertSorted(Head(seq), SortBy(Tail(seq), keys), keys)

\* the orders in which a find() without sort may return the documents of S
Orders(S) ==
  {q \in [1 .. Cardinality(S) -> S] : \A i, j \in DOMAIN q : i # j => q[i] # q[j]}

----------------------------------------------------------------------------
(* Responses: res.status(..).json({ message, event | events }) *)

Resp(status, message, event, events) ==
  [status |-> status, message |-> message, event |-> event, events |-> events]

Result(S, resp) == [store |-> S, resp |-> resp]

----------------------------------------------------------------------------
(* Store calls *)

\* Event.findOne / find with a Number filter: the filter value is cast first
FilterCastFails(v) == castNumber(v).k = "casterror"

\* event.save() of a new document: validation, then the insert under the
\* unique index. outcome: "validation", "duplicate" or "saved"
Save(body, S, t) ==
  LET cast == CastBody(body)
      doc  == Stamp(cast, t, t)
  IN  IF ValidationFails(cast)
        THEN [outcome |-> "validation", store |-> S, doc |-> {}]
      ELSE IF DuplicateKey(S, cast.eventID)
        THEN [outcome |-> "duplicate", store |-> S, doc |-> {}]
      ELSE [outcome |-> "saved", store |-> S \cup {doc}, doc |-> {doc}]

\* a mutation of findOneAndUpdate with upsert: true, which inserts a document
\* when none matches
FindOneAndUpdateUpsert(urlId, body, S, t) ==
  LET cast == CastBody(body)
      m    == Matching(S, "eventID", urlId)
      new  == Stamp([f \in SchemaFields |->
                       IF f = "eventID" /\ cast[f].k = "undef" THEN urlId
                       ELSE cast[f]], t, t)
  IN  IF FilterCastFails(urlId) \/ HasCastError(cast)
        THEN [outcome |-> "cast", store |-> S, doc |-> {}]
      ELSE IF m = {}
        THEN IF DuplicateKey(S, new.eventID)
               THEN [outcome |-> "duplicate", store |-> S, doc |-> {}]
             ELSE [outcome |-> "updated", store |-> S \cup {new}, doc |-> {new}]
      ELSE LET d  == CHOOSE x \in m : TRUE
               d2 == ApplySet(d, cast, t)
           IN  IF DuplicateKey(S \ {d}, d2.eventID)
                 THEN [outcome |-> "duplicate", store |-> S, doc |-> {}]
               ELSE [outcome |-> "updated", store |-> (S \ {d}) \cup {d2},
                     doc |-> {d2}]

\* Event.findOneAndUpdate({ eventID: urlId }, body, { new: true }): filter and
\* update are cast, the update is a $set of the paths present, no validators
\* run and nothing is inserted when no document matches.
\* outcome: "cast", "duplicate", "none" or "updated"
FindOneAndUpdate(urlId, body, S, t) ==
  LET cast == CastBody(body)
      m    == Matching(S, "eventID", urlId)
  IN  IF FilterCastFails(urlId) \/ HasCastError(cast)
        THEN [outcome |-> "cast", store |-> S, doc |-> {}]
      ELSE IF m = {}
        THEN [outcome |-> "none", store |-> S, doc |-> {}]
      ELSE LET d  == CHOOSE x \in m : TRUE
               d2 == ApplySet(d, cast, t)
           IN  IF DuplicateKey(S \ {d}, d2.eventID)
                 THEN [outcome |-> "duplicate", store |-> S, doc |-> {}]
               ELSE [outcome |-> "updated", store |-> (S \ {d}) \cup {d2},
                     doc |-> {d2}]

\* Event.findOneAndDelete({ eventID: urlId })
FindOneAndDelete(urlId, S) ==
  LET m == Matching(S, "eventID", urlId)
  IN  IF FilterCastFails(urlId)
        THEN [outcome |-> "cast", store |-> S, doc |-> {}]
      ELSE IF m = {}
        THEN [outcome |-> "none", store |-> S, doc |-> {}]
      ELSE LET d == CHOOSE x \in m : TRUE
           IN  [outcome |-> "deleted", store |-> S \ {d}, doc |-> {d}]

----------------------------------------------------------------------------
(* The handlers, each as the result (store, response) of one request on   *)
(* store S at clock reading t. q is the order in which the store hands    *)
(* back the documents of an unsorted or not yet sorted find().             *)

\* GET /api/v1/events
GetEvents(S, q) ==
  Result(S, Resp(200, "Events retrieved successfully", {}, SortBy(q, SortKeys)))

\* GET /api/v1/events/:id
GetEventById(id, S) ==
  LET urlId == parseInt(Str(id))
      m     == Matching(S, "eventID", urlId)
  IN  IF FilterCastFails(urlId)
        THEN Result(S, Resp(500, "Cast to Number failed", {}, <<>>))
      ELSE IF m = {}
        THEN Result(S, Resp(404, "Event not found", {}, <<>>))
      ELSE Result(S, Resp(200, "Event retrieved successfully",
                          {CHOOSE d \in m : TRUE}, <<>>))

MonthMatches(month, S) == Matching(S, "month", parseInt(Str(month)))

\* a mutation of the month filter without the test for an empty result
GetEventsByMonthNoEmptyTest(month, S, q) ==
  IF FilterCastFails(parseInt(Str(month)))
    THEN Result(S, Resp(500, "Cast to Number failed", {}, <<>>))
  ELSE Result(S, Resp(200, "Specific month events retrieved successfully", {}, q))

\* GET /api/v1/events/month/:month
GetEventsByMonth(month, S, q) ==
  IF FilterCastFails(parseInt(Str(month)))
    THEN Result(S, Resp(500, "Cast to Number failed", {}, <<>>))
  ELSE IF Len(q) = 0
    THEN Result(S, Resp(404, "No events for this month", {}, <<>>))
  ELSE Result(S, Resp(200, "Specific month events retrieved successfully", {}, q))

ClientMatches(client, S) == Matching(S, "client", castString(Str(client)))

\* GET /api/v1/events/client/:client
GetEventsByClient(client, S, q) ==
  IF Len(q) = 0
    THEN Result(S, Resp(404, "No events listed for this client", {}, <<>>))
  ELSE Result(S, Resp(200, "Client events retrieved successfully", {}, q))

\* POST /api/v1/events/events
PostEvent(body, S, t) ==
  LET r == Save(body, S, t)
  IN  CASE r.outcome = "saved" ->
             Result(r.store, Resp(201, "Event added successfully", r.doc, <<>>))
        [] r.outcome = "duplicate" ->
             Result(S, Resp(400, "Event ID already exists", {}, <<>>))
        [] OTHER ->
             Result(S, Resp(400, "Event validation failed", {}, <<>>))

UpdateResponse(r, S, okMessage) ==
  CASE r.outcome = "updated" -> Result(r.store, Resp(200, okMessage, r.doc, <<>>))
    [] r.outcome = "none" -> Result(S, Resp(404, "Event not found", {}, <<>>))
    [] r.outcome = "duplicate" ->
         Result(S, Resp(400, "E11000 duplicate key error", {}, <<>>))
    [] OTHER -> Result(S, Resp(400, "Cast to Number failed", {}, <<>>))

\* parseInt(eventID) !== urlId
IdMismatch(id, body) ==
  StrictNotEqual(parseInt(body.eventID), parseInt(Str(id)))

\* PUT /api/v1/events/:id
PutEvent(id, body, S, t) ==
  IF IdMismatch(id, body)
    THEN Result(S, Resp(400, "eventID in body must match URL ID", {}, <<>>))
  ELSE UpdateResponse(FindOneAndUpdate(parseInt(Str(id)), body, S, t), S,
                      "Event updated successfully")

\* PATCH /api/v1/events/:id
PatchEvent(id, body, S, t) ==
  UpdateResponse(FindOneAndUpdate(parseInt(Str(id)), body, S, t), S,
                 "Event successfully patched")

\* DELETE /api/v1/events/:id
DeleteEvent(id, S) ==
  LET r == FindOneAndDelete(parseInt(Str(id)), S)
  IN  CASE r.outcome = "deleted" ->
             Result(r.store, Resp(200, "Event deleted successfully", {}, <<>>))
        [] r.outcome = "none" -> Result(S, Resp(404, "Event not found", {}, <<>>))
        [] OTHER -> Result(S, Resp(500, "Cast to Number failed", {}, <<>>))

----------------------------------------------------------------------------
(* Requests *)

EmptyBody == [f \in SchemaFields |-> Undef]

Req(op, param, body) == [op |-> op, param |-> param, body |-> body]

\* body with the listed paths replaced
With(body, over) ==
  [f \in SchemaFields |-> IF f \in DOMAIN over THEN over[f] ELSE body[f]]

\* body restricted to the listed paths
Only(body, paths) ==
  [f \in SchemaFields |-> IF f \in paths THEN body[f] ELSE Undef]

----------------------------------------------------------------------------
(* Bounds and the inputs the requests are drawn from *)

\* most documents the collection holds
MaxDocs == 2

\* last reading of the clock
MaxClock == 1

\* "Gala", "Acme", "Party", "Hall", "09:00"
GalaBody ==
  [eventID   |-> Undef,
   eventName |-> Str(<<71, 97, 108, 97>>),
   client    |-> Str(<<65, 99, 109, 101>>),
   type      |-> Str(<<80, 97, 114, 116, 121>>),
   venue     |-> Str(<<72, 97, 108, 108>>),
   month     |-> Whole(5),
   day       |-> Whole(25),
   year      |-> Whole(2025),
   startTime |-> Str(<<48, 57, 58, 48, 48>>),
   pax       |-> Whole(50)]

\* "Expo", "Bolt", "Fair", "Dome", "08:30"
ExpoBody ==
  [eventID   |-> Undef,
   eventName |-> Str(<<69, 120, 112, 111>>),
   client    |-> Str(<<66, 111, 108, 116>>),
   type      |-> Str(<<70, 97, 105, 114>>),
   venue     |-> Str(<<68, 111, 109, 101>>),
   month     |-> Whole(12),
   day       |-> Whole(10),
   year      |-> Whole(2026),
   startTime |-> Str(<<48, 56, 58, 51, 48>>),
   pax       |-> Whole(80)]

Gala(id) == With(GalaBody, [eventID |-> id])
Expo(id) == With(ExpoBody, [eventID |-> id])

\* the path parameters "1", "2", "abc"
PathIds == {<<49>>, <<50>>, <<97, 98, 99>>}

\* bodies of POST: complete ones, one with the numbers as numeric strings, one
\* with a non-integer eventID, and ones that miss a field, leave a string
\* empty or carry a pax that is no number ("abc")
PostBodies ==
  {Gala(Whole(1)), Gala(Whole(2)), Expo(Whole(1)), Expo(Whole(2)),
   With(Expo(Str(<<50>>)), [pax |-> Str(<<56, 48>>)]),
   Gala(Num(1, 5)),
   With(Gala(Whole(1)), [pax |-> Undef]),
   With(Gala(Whole(1)), [venue |-> Str(<<>>)]),
   With(Gala(Whole(1)), [pax |-> Str(<<97, 98, 99>>)])}

\* bodies of PUT /1: complete ones with eventID 1, 2, 1.5, "1", "1x" or
\* absent; one with only eventID and venue; one with an empty venue
PutBodies ==
  {Expo(Whole(1)), Gala(Whole(2)),
   Expo(Num(1, 5)),
   Gala(Str(<<49>>)),
   Gala(Str(<<49, 120>>)),
   Gala(Undef),
   Only(Expo(Whole(1)), {"eventID", "venue"}),
   With(Expo(Whole(1)), [venue |-> Str(<<>>)])}

\* PUT requests: every body on /1, and some on /2 and /abc
PutRequests ==
  {<<(<<49>>), b>> : b \in PutBodies}
    \cup {<<(<<50>>), Gala(Whole(2))>>, <<(<<50>>), Expo(Whole(1))>>,
          <<(<<97, 98, 99>>), Gala(Whole(1))>>}

\* bodies of PATCH: one field, two fields, none; an eventID; a pax that is
\* no number
PatchBodies ==
  {Only(ExpoBody, {"venue"}),
   Only(ExpoBody, {"month", "startTime"}),
   EmptyBody,
   Only(Expo(Whole(2)), {"eventID"}),
   Only(With(ExpoBody, [pax |-> Str(<<97, 98, 99>>)]), {"pax"})}

\* PATCH requests: every body on /1, and some on /2 and /abc
PatchRequests ==
  {<<(<<49>>), b>> : b \in PatchBodies}
    \cup {<<(<<50>>), Only(Gala(Whole(1)), {"eventID"})>>,
          <<(<<97, 98, 99>>), Only(ExpoBody, {"venue"})>>}

\* the months "5", "12", "abc"
PathMonths == {<<53>>, <<49, 50>>, <<97, 98, 99>>}

\* the clients "Acme", "acme"
PathClients == {<<65, 99, 109, 101>>, <<97, 99, 109, 101>>}

Clients == {"c1", "c2"}

----------------------------------------------------------------------------
(* State *)

\* store:    the events collection
\* now:      the server clock
\* last:     the request being answered, its response and the collection
\*           before it; empty between two requests
\* inflight: the requests sent by clients and not yet answered
\* answered: per client, the request answered last and its response
\* order:    the clients answered last, most recent first (at most two)
\* gone:     the eventIDs removed by a DELETE answered 200 and not created
\*           by a POST answered 201 since (history)
\* run:      how the handler of the request in last ran: whether its store
\*           call failed, the responses it wrote and whether an error left
\*           the handler; empty between two requests

Exchange(req, resp, before) == [req |-> req, resp |-> resp, before |-> before]

Init ==
  /\ store = {}
  /\ now = 0
  /\ last = <<>>
  /\ gone = {}
  /\ inflight = {}
  /\ answered = {}
  /\ order = <<>>
  /\ run = <<>>

Idle == last = <<>>

LastOp   == IF last = <<>> THEN "none" ELSE last[1].req.op
LastReq  == last[1].req
LastResp == last[1].resp
Before   == last[1].before

\* the history of deletions after a request answered resp
GoneAfter(req, resp) ==
  CASE req.op = "DELETE" /\ resp.status = 200 -> gone \cup {parseInt(Str(req.param))}
    [] req.op = "POST" /\ resp.status = 201 -> gone \ {d.eventID : d \in resp.event}
    [] OTHER -> gone

\* the run of a handler: the collection after it, whether its store call
\* failed, the responses written and whether an error left the handler
Outcome(S, failed, responses, escaped) ==
  [store |-> S, failed |-> failed, responses |-> responses, escaped |-> escaped]

\* the try block ran to its res.status(..).json(..)
Respond(r) == Outcome(r.store, FALSE, <<r.resp>>, FALSE)

\* a mutation of the catch block that throws the error on
CaughtRethrown(S, resp) == Outcome(S, TRUE, <<>>, TRUE)

\* the store call rejected and the catch block wrote resp. The call is one
\* that failed before the store applied it: the collection is as it was
Caught(S, resp) == Outcome(S, TRUE, <<resp>>, FALSE)

\* nothing written
NoResponse == Resp(0, "", {}, <<>>)

\* the exchange of a request whose handler ran with outcome o; the response
\* recorded is the first one written
Ended(req, o) ==
  LET resp == IF o.responses = <<>> THEN NoResponse ELSE o.responses[1]
  IN  /\ Cardinality(o.store) <= MaxDocs
      /\ store' = o.store
      /\ last' = <<Exchange(req, resp, store)>>
      /\ gone' = GoneAfter(req, resp)
      /\ run' = <<[failed |-> o.failed, responses |-> o.responses,
                   escaped |-> o.escaped]>>
      /\ UNCHANGED <<now, inflight, answered, order>>

\* the exchange of a request handled from start to end: the server takes the
\* next request once the response of this one is out
Handled(req, r) == Ended(req, Respond(r))

\* res.json(..) has written the response: the exchange is over
Deliver ==
  /\ ~Idle
  /\ last' = <<>>
  /\ run' = <<>>
  /\ UNCHANGED <<store, now, gone, inflight, answered, order>>

Tick ==
  /\ Idle
  /\ now < MaxClock
  /\ now' = now + 1
  /\ UNCHANGED <<store, last, gone, inflight, answered, order, run>>

List ==
  /\ Idle
  /\ \E q \in Orders(store) :
       Handled(Req("LIST", <<>>, EmptyBody), GetEvents(store, q))

GetById(id) ==
  /\ Idle
  /\ Handled(Req("GET", id, EmptyBody), GetEventById(id, store))

ByMonth(month) ==
  /\ Idle
  /\ \E q \in Orders(MonthMatches(month, store)) :
       Handled(Req("MONTH", month, EmptyBody), GetEventsByMonth(month, store, q))

ByClient(client) ==
  /\ Idle
  /\ \E q \in Orders(ClientMatches(client, store)) :
       Handled(Req("CLIENT", client, EmptyBody), GetEventsByClient(client, store, q))

Create(body) ==
  /\ Idle
  /\ Handled(Req("POST", <<>>, body), PostEvent(body, store, now))

Put(id, body) ==
  /\ Idle
  /\ Handled(Req("PUT", id, body), PutEvent(id, body, store, now))

Patch(id, body) ==
  /\ Idle
  /\ Handled(Req("PATCH", id, body), PatchEvent(id, body, store, now))

Delete(id) ==
  /\ Idle
  /\ Handled(Req("DELETE", id, EmptyBody), DeleteEvent(id, store))

Next ==
  \/ Tick
  \/ Deliver
  \/ List
  \/ \E id \in PathIds : GetById(id)
  \/ \E month \in PathMonths : ByMonth(month)
  \/ \E client \in PathClients : ByClient(client)
  \/ \E body \in PostBodies : Create(body)
  \/ \E x \in PutRequests : Put(x[1], x[2])
  \/ \E x \in PatchRequests : Patch(x[1], x[2])
  \/ \E id \in PathIds : Delete(id)

Spec == Init /\ [][Next]_vars

----------------------------------------------------------------------------
(* Concurrent requests. A handler runs to its await, the store executes the *)
(* call atomically, and the handler answers from the result; the part of    *)
(* PUT before its await reads nothing but the request. A step Answer.. is   *)
(* the store call of one request in flight together with its handler; the   *)
(* requests of the two clients interleave freely. last and gone, the        *)
(* history of the sequential specification, stay as they are.               *)

\* the write requests the clients send
ConcRequests ==
  {Req("POST", <<>>, Gala(Whole(1))),
   Req("POST", <<>>, Expo(Whole(1))),
   Req("POST", <<>>, Gala(Whole(2))),
   Req("POST", <<>>, With(Expo(Whole(1)), [pax |-> Undef])),
   Req("PUT", <<49>>, Expo(Whole(1))),
   Req("PATCH", <<49>>, Only(Expo(Whole(2)), {"eventID"})),
   Req("PATCH", <<50>>, Only(ExpoBody, {"venue"})),
   Req("DELETE", <<49>>, EmptyBody)}

Waiting(c) == \E m \in inflight : m.client = c

\* a client sends a request; what it was answered before is dropped, and
\* with it the record of which answers came last when its answer was the
\* latest
Send(c, req) ==
  /\ ~Waiting(c)
  /\ inflight' = inflight \cup {[client |-> c, req |-> req]}
  /\ answered' = {a \in answered : a.client # c}
  /\ order' = IF order # <<>> /\ order[1] = c THEN <<>>
              ELSE SelectSeq(order, LAMBDA x : x # c)
  /\ UNCHANGED <<store, now, last, gone, run>>

\* the store call of message m is executed with result r and m is answered.
\* seen: the eventIDs stored before the call; raced: another request was in
\* flight with it
Answered(m, r) ==
  /\ Cardinality(r.store) <= MaxDocs
  /\ store' = r.store
  /\ inflight' = inflight \ {m}
  /\ answered' = answered \cup
       {[client |-> m.client, req |-> m.req, resp |-> r.resp,
         seen |-> IDsOf(store), raced |-> inflight # {m}]}
  /\ order' = <<m.client>> \o SubSeq(order, 1, IF order = <<>> THEN 0 ELSE 1)
  /\ UNCHANGED <<now, last, gone, run>>

AnswerPost(c) ==
  \E m \in inflight :
    /\ m.client = c
    /\ m.req.op = "POST"
    /\ Answered(m, PostEvent(m.req.body, store, now))

AnswerPut(c) ==
  \E m \in inflight :
    /\ m.client = c
    /\ m.req.op = "PUT"
    /\ Answered(m, PutEvent(m.req.param, m.req.body, store, now))

AnswerPatch(c) ==
  \E m \in inflight :
    /\ m.client = c
    /\ m.req.op = "PATCH"
    /\ Answered(m, PatchEvent(m.req.param, m.req.body, store, now))

AnswerDelete(c) ==
  \E m \in inflight :
    /\ m.client = c
    /\ m.req.op = "DELETE"
    /\ Answered(m, DeleteEvent(m.req.param, store))

NextConc ==
  \E c \in Clients :
    \/ \E req \in ConcRequests : Send(c, req)
    \/ AnswerPost(c)
    \/ AnswerPut(c)
    \/ AnswerPatch(c)
    \/ AnswerDelete(c)

SpecConc == Init /\ [][NextConc]_vars

----------------------------------------------------------------------------
(* Listing. The same handlers on events 1, 2 and 3 whose dates are moved    *)
(* field by field, so that two stored events can differ first in the year,  *)
(* the month, the day or the start time.                                    *)

\* the path parameters "1", "2", "3"
ListIds == {<<49>>, <<50>>, <<51>>}

\* events of 2025-05-25 "09:00"
ListBodies == {Gala(Whole(1)), Gala(Whole(2)), Gala(Whole(3))}

\* year 2026; month 12; day 9; startTime "10:00"
ListPatchBodies ==
  {Only(With(GalaBody, [year |-> Whole(2026)]), {"year"}),
   Only(With(GalaBody, [month |-> Whole(12)]), {"month"}),
   Only(With(GalaBody, [day |-> Whole(9)]), {"day"}),
   Only(With(GalaBody, [startTime |-> Str(<<49, 48, 58, 48, 48>>)]), {"startTime"})}

NextList ==
  \/ Deliver
  \/ List
  \/ \E body \in ListBodies : Create(body)
  \/ \E id \in ListIds, body \in ListPatchBodies : Patch(id, body)
  \/ \E id \in ListIds : Delete(id)

SpecList == Init /\ [][NextList]_vars

----------------------------------------------------------------------------
(* Store failures. The awaited store call of a handler rejects with an      *)
(* error that is none of validation, cast or duplicate key (the connection  *)
(* is lost, the call times out) and the catch block of the handler answers. *)
(* What a handler does before its store call (the guard of PUT, mongoose's  *)
(* validation and casts) is unchanged: a request stopped there makes no     *)
(* store call, so none fails.                                               *)

\* err of a rejected store call: err.code, err.message
StoreErrors ==
  {[code |-> 6, message |-> "connection lost"],
   [code |-> 89, message |-> "operation timed out"]}

\* app.get('/api/v1/events'): catch
GetEventsFailed(S, err) == Caught(S, Resp(500, err.message, {}, <<>>))

\* app.get('/api/v1/events/:id'): catch
GetEventByIdFailed(id, S, err) ==
  IF FilterCastFails(parseInt(Str(id))) THEN Respond(GetEventById(id, S))
  ELSE Caught(S, Resp(500, err.message, {}, <<>>))

\* app.get('/api/v1/events/month/:month'): catch
GetEventsByMonthFailed(month, S, err) ==
  IF FilterCastFails(parseInt(Str(month))) THEN Respond(GetEventsByMonth(month, S, <<>>))
  ELSE Caught(S, Resp(500, err.message, {}, <<>>))

\* app.get('/api/v1/events/client/:client'): catch
GetEventsByClientFailed(client, S, err) ==
  Caught(S, Resp(500, err.message, {}, <<>>))

\* app.post('/api/v1/events/events'): catch
PostEventFailed(body, S, t, err) ==
  IF ValidationFails(CastBody(body)) THEN Respond(PostEvent(body, S, t))
  ELSE IF err.code = 11000
    THEN Caught(S, Resp(400, "Event ID already exists", {}, <<>>))
  ELSE Caught(S, Resp(400, err.message, {}, <<>>))

\* app.put('/api/v1/events/:id'): catch
PutEventFailed(id, body, S, t, err) ==
  IF \/ IdMismatch(id, body)
     \/ FilterCastFails(parseInt(Str(id)))
     \/ HasCastError(CastBody(body))
    THEN Respond(PutEvent(id, body, S, t))
  ELSE Caught(S, Resp(400, err.message, {}, <<>>))

\* app.patch('/api/v1/events/:id'): catch
PatchEventFailed(id, body, S, t, err) ==
  IF FilterCastFails(parseInt(Str(id))) \/ HasCastError(CastBody(body))
    THEN Respond(PatchEvent(id, body, S, t))
  ELSE Caught(S, Resp(400, err.message, {}, <<>>))

\* app.delete('/api/v1/events/:id'): catch
DeleteEventFailed(id, S, err) ==
  IF FilterCastFails(parseInt(Str(id))) THEN Respond(DeleteEvent(id, S))
  ELSE Caught(S, Resp(500, err.message, {}, <<>>))

ListFails(err) ==
  /\ Idle
  /\ Ended(Req("LIST", <<>>, EmptyBody), GetEventsFailed(store, err))

GetByIdFails(id, err) ==
  /\ Idle
  /\ Ended(Req("GET", id, EmptyBody), GetEventByIdFailed(id, store, err))

ByMonthFails(month, err) ==
  /\ Idle
  /\ Ended(Req("MONTH", month, EmptyBody), GetEventsByMonthFailed(month, store, err))

ByClientFails(client, err) ==
  /\ Idle
  /\ Ended(Req("CLIENT", client, EmptyBody), GetEventsByClientFailed(client, store, err))

CreateFails(body, err) ==
  /\ Idle
  /\ Ended(Req("POST", <<>>, body), PostEventFailed(body, store, now, err))

PutFails(id, body, err) ==
  /\ Idle
  /\ Ended(Req("PUT", id, body), PutEventFailed(id, body, store, now, err))

PatchFails(id, body, err) ==
  /\ Idle
  /\ Ended(Req("PATCH", id, body), PatchEventFailed(id, body, store, now, err))

DeleteFails(id, err) ==
  /\ Idle
  /\ Ended(Req("DELETE", id, EmptyBody), DeleteEventFailed(id, store, err))

\* the store is reachable for some requests and fails for others
NextFail ==
  \/ Deliver
  \/ \E body \in PostBodies : Create(body)
  \/ \E err \in StoreErrors :
       \/ ListFails(err)
       \/ \E id \in PathIds : GetByIdFails(id, err)
       \/ \E month \in PathMonths : ByMonthFails(month, err)
       \/ \E client \in PathClients : ByClientFails(client, err)
       \/ \E body \in PostBodies : CreateFails(body, err)
       \/ \E x \in PutRequests : PutFails(x[1], x[2], err)
       \/ \E x \in PatchRequests : PatchFails(x[1], x[2], err)
       \/ \E id \in PathIds : DeleteFails(id, err)

SpecFail == Init /\ [][NextFail]_vars

----------------------------------------------------------------------------
(* Properties *)

\* a value of the type the data model gives the field: a whole number for a
\* Number path, a non-empty string for a String path
TypedFor(f, v) ==
  IF f \in NumberFields THEN v.k = "num" /\ v.f = 0
  ELSE v.k = "str" /\ v.s # <<>>

\* a body that satisfies every required-field constraint
SatisfiesConstraints(body) == \A f \in SchemaFields : TypedFor(f, body[f])

\* the text of a whole number, as it stands in a path
PathOf(v) == DigitsOf(v.n)

\* C1: when the POST handled last had a body satisfying every required-field
\* constraint and an eventID not stored before, it was answered 201, and
\* GET /:id for that eventID on the collection as the POST left it answers 200
\* with a record whose ten fields equal the submitted ones and whose createdAt
\* is the server's clock reading.
CreateThenGetRoundTrip ==
  (/\ LastOp = "POST"
   /\ SatisfiesConstraints(LastReq.body)
   /\ LastReq.body.eventID \notin IDsOf(Before))
  => /\ LastResp.status = 201
     /\ LET got == GetEventById(PathOf(LastReq.body.eventID), store).resp
        IN  /\ got.status = 200
            /\ \E d \in got.event :
                 /\ \A f \in SchemaFields : d[f] = LastReq.body[f]
                 /\ d.createdAt = Whole(now)

\* C1 witness: a valid POST for a new eventID was answered into a collection
\* that already held another event
CreateThenGetWitness ==
  /\ LastOp = "POST"
  /\ SatisfiesConstraints(LastReq.body)
  /\ LastReq.body.eventID \notin IDsOf(Before)
  /\ Before # {}
  /\ LastResp.status = 201
  /\ now > 0

\* the path id of the request handled last, as the handlers parse it
LastUrlId == parseInt(Str(LastReq.param))

\* the body's eventID denotes the number that stands in the path
SameNumber(v, id) == castNumber(v) = NumberOfString(id)

\* C3: a PUT, whatever eventID its body carries, leaves the collection with
\* the eventIDs it held before.
PutKeepsEventIDs ==
  LastOp = "PUT" => IDsOf(store) = IDsOf(Before)

\* C4: after a PATCH, whatever its body, the record the path id matched still
\* has that eventID.
PatchKeepsEventID ==
  (LastOp = "PATCH" /\ LastUrlId \in IDsOf(Before))
  => LastUrlId \in IDsOf(store)

\* C5, where the path id has a record: a PUT whose body eventID differs from
\* the path id is answered 400 and leaves every record as it was.
PutMismatchRejected ==
  (/\ LastOp = "PUT"
   /\ ~SameNumber(LastReq.body.eventID, LastReq.param)
   /\ LastUrlId \in IDsOf(Before))
  => LastResp.status = 400 /\ store = Before

\* a required field other than eventID is absent from the body or empty
OmitsRequired(body) ==
  \E f \in SchemaFields \ {"eventID"} :
    body[f].k = "undef" \/ body[f] = Str(<<>>)

\* C6: a PUT on an existing record whose body has the path's eventID but
\* omits or leaves empty another required field is answered 400 and leaves
\* the record as it was.
PutRequiresAllFields ==
  (/\ LastOp = "PUT"
   /\ SameNumber(LastReq.body.eventID, LastReq.param)
   /\ OmitsRequired(LastReq.body)
   /\ LastUrlId \in IDsOf(Before))
  => LastResp.status = 400 /\ store = Before

\* the mutable fields a body supplies
Supplied(body) == {f \in SchemaFields \ {"eventID"} : body[f].k # "undef"}

\* a PATCH body made of mutable fields only, each with a value of its type
PatchOfMutableFields(body) ==
  /\ body.eventID.k = "undef"
  /\ \A f \in Supplied(body) :
       IF f \in NumberFields THEN body[f].k = "num" ELSE body[f].k = "str"

\* C7: a PATCH on an existing record whose body supplies a set F of mutable
\* fields is answered 200; afterwards the record's fields in F equal the
\* body's values, every other field, eventID and createdAt included, has the
\* value it had before, and no other record has changed.
PatchTouchesOnlySupplied ==
  (/\ LastOp = "PATCH"
   /\ PatchOfMutableFields(LastReq.body)
   /\ LastUrlId \in IDsOf(Before))
  => /\ LastResp.status = 200
     /\ \E d0 \in Before, d1 \in store :
          /\ d0.eventID = LastUrlId
          /\ d1.eventID = LastUrlId
          /\ LastResp.event = {d1}
          /\ \A f \in Supplied(LastReq.body) : d1[f] = LastReq.body[f]
          /\ \A f \in (SchemaFields \cup {"createdAt"}) \ Supplied(LastReq.body) :
               d1[f] = d0[f]
          /\ store \ {d1} = Before \ {d0}

\* C7 witness: a PATCH of venue alone was answered 200 on a record whose
\* venue was another one, with a second record stored
PatchTouchesOnlySuppliedWitness ==
  /\ LastOp = "PATCH"
  /\ Supplied(LastReq.body) = {"venue"}
  /\ LastReq.body.eventID.k = "undef"
  /\ LastResp.status = 200
  /\ Cardinality(store) = 2
  /\ \E d0 \in Before :
       d0.eventID = LastUrlId /\ d0.venue # LastReq.body.venue

\* the path text denotes a whole number
WholeText(p) == NumberOfString(p).k = "num" /\ NumberOfString(p).f = 0

Elements(q) == {q[i] : i \in DOMAIN q}

\* a response that is 404 when nothing is wanted and else 200 with a list
\* holding exactly the wanted records, each once
AnswersExactly(resp, want) ==
  /\ resp.status = 404 <=> want = {}
  /\ want # {} => /\ resp.status = 200
                  /\ Elements(resp.events) = want
                  /\ Len(resp.events) = Cardinality(want)
  /\ resp.status = 200 => resp.events # <<>>

\* C9: a filter by month (an integer month) is answered 404 exactly when no
\* stored record has that month, a filter by client exactly when no stored
\* record has that very client string; otherwise the answer is 200 with a
\* non-empty list holding exactly the matching records.
FiltersAnswerExactly ==
  /\ (LastOp = "MONTH" /\ WholeText(LastReq.param))
     => AnswersExactly(LastResp,
                       {d \in store : d.month = NumberOfString(LastReq.param)})
  /\ LastOp = "CLIENT"
     => AnswersExactly(LastResp, {d \in store : d.client = Str(LastReq.param)})

\* C9 witness: a filter by month found nothing in a collection that holds
\* events of another month
FiltersAnswerExactlyWitness ==
  /\ LastOp = "MONTH"
  /\ WholeText(LastReq.param)
  /\ LastResp.status = 404
  /\ store # {}

\* C10: an eventID removed by a DELETE answered 200 is not found by
\* GET /:id (404) until a POST creates an event with that eventID again.
DeletedStaysAbsent ==
  \A id \in gone : GetEventById(PathOf(id), store).resp.status = 404

\* two POSTs with bodies satisfying the constraints and the same eventID,
\* a1 answered first and a2 right after it, no other request answered between
\* or since
TwoCreatesInARow(a1, a2) ==
  /\ order = <<a2.client, a1.client>>
  /\ a1.req.op = "POST" /\ a2.req.op = "POST"
  /\ SatisfiesConstraints(a1.req.body) /\ SatisfiesConstraints(a2.req.body)
  /\ a1.req.body.eventID = a2.req.body.eventID

DuplicateAnswer(resp) ==
  resp.status = 400 /\ resp.message = "Event ID already exists"

\* C2: under every interleaving of the clients' POST, PUT, PATCH and DELETE
\* requests no two stored records share an eventID; and of two POSTs with the
\* same eventID answered one after the other, the second is answered 400
\* "Event ID already exists"; when the eventID was free the first is answered
\* 201 and the collection holds exactly one record with that eventID, the
\* first one's; when it was taken the first is answered 400 as well.
OneRecordPerEventID ==
  /\ \A d1, d2 \in store : d1.eventID = d2.eventID => d1 = d2
  /\ \A a1, a2 \in answered :
       TwoCreatesInARow(a1, a2)
       => /\ DuplicateAnswer(a2.resp)
          /\ IF a1.req.body.eventID \in a1.seen
               THEN DuplicateAnswer(a1.resp)
               ELSE /\ a1.resp.status = 201
                    /\ \E d \in store :
                         /\ \A f \in SchemaFields : d[f] = a1.req.body[f]
                         /\ \A e \in store : e.eventID = d.eventID => e = d

\* C2 witness: two POSTs with the same eventID and different bodies were in
\* flight together; the first was answered 201, the second 400
OneRecordPerEventIDWitness ==
  \E a1, a2 \in answered :
    /\ TwoCreatesInARow(a1, a2)
    /\ a1.raced
    /\ a1.req.body # a2.req.body
    /\ a1.resp.status = 201
    /\ DuplicateAnswer(a2.resp)

\* a comes before b in the order of (year, month, day, startTime)
DateTimeLess(a, b) ==
  \/ ValueLess(a.year, b.year)
  \/ /\ a.year = b.year
     /\ \/ ValueLess(a.month, b.month)
        \/ /\ a.month = b.month
           /\ \/ ValueLess(a.day, b.day)
              \/ /\ a.day = b.day
                 /\ ValueLess(a.startTime, b.startTime)

\* C8: GET /api/v1/events is answered 200 with the stored records, each
\* once, none after a record that comes later in the order of
\* (year, month, day, startTime); with nothing stored the list is empty.
ListIsOrdered ==
  LastOp = "LIST"
  => /\ LastResp.status = 200
     /\ Elements(LastResp.events) = store
     /\ Len(LastResp.events) = Cardinality(store)
     /\ \A i, j \in DOMAIN LastResp.events :
          i < j => ~DateTimeLess(LastResp.events[j], LastResp.events[i])

\* C8 witness: a list of two events of the same year and month, the one
\* created later (the greater createdAt or eventID) first, by its day
ListIsOrderedWitness ==
  /\ LastOp = "LIST"
  /\ Len(LastResp.events) = 2
  /\ LastResp.events[1].year = LastResp.events[2].year
  /\ LastResp.events[1].month = LastResp.events[2].month
  /\ ValueLess(LastResp.events[1].day, LastResp.events[2].day)
  /\ ValueLess(LastResp.events[2].eventID, LastResp.events[1].eventID)

\* the request in last made a store call and the call failed
StoreCallFailed == run # <<>> /\ run[1].failed

\* C11: a handler whose store call fails writes exactly one response and
\* lets no error out; the status is 500 for the list, get by ID, the two
\* filters and delete, 400 for create, PUT and PATCH, never 2xx; and every
\* handled request, failed or not, ends with one response.
StoreFailureAnswered ==
  /\ run # <<>> => Len(run[1].responses) = 1 /\ ~run[1].escaped
  /\ StoreCallFailed
       => /\ LastResp = run[1].responses[1]
          /\ LastOp \in {"LIST", "GET", "MONTH", "CLIENT", "DELETE"}
               => LastResp.status = 500
          /\ LastOp \in {"POST", "PUT", "PATCH"} => LastResp.status = 400
          /\ ~(LastResp.status >= 200 /\ LastResp.status < 300)

\* C11 witness: the store call of a PUT on a stored event, its body passing
\* the guard, has failed and been answered
StoreFailureAnsweredWitness ==
  /\ StoreCallFailed
  /\ LastOp = "PUT"
  /\ parseInt(Str(LastReq.param)) \in IDsOf(Before)
  /\ LastResp.status = 400

\* the stored records with the eventID of the path parameter, before the
\* request in last
Addressed == {d \in Before : d.eventID = LastUrlId}

\* C12: a create answered 201 adds one record, with the body's eventID, and
\* a PUT, PATCH or DELETE answered 200 rewrites or removes the one record
\* that had the path id; every other record is as it was. A read, and a
\* write answered otherwise, leaves the collection as it was; a PUT or PATCH
\* on an id no record has is never answered 200, and is answered 404 when
\* its body passes the guard and the casts.
WritesChangeOneRecord ==
  LastOp # "none"
  => /\ LastOp \in {"LIST", "GET", "MONTH", "CLIENT"} => store = Before
     /\ LastResp.status \notin {200, 201} => store = Before
     /\ LastOp = "POST" /\ LastResp.status = 201
          => /\ castNumber(LastReq.body.eventID) \notin IDsOf(Before)
             /\ \E d \in store :
                  /\ d.eventID = castNumber(LastReq.body.eventID)
                  /\ store \ {d} = Before
     /\ LastOp \in {"PUT", "PATCH"} /\ LastResp.status = 200
          => /\ Cardinality(Addressed) = 1
             /\ Cardinality(store) = Cardinality(Before)
             /\ \E d2 \in store : store \ {d2} = Before \ Addressed
     /\ LastOp = "DELETE" /\ LastResp.status = 200
          => /\ Cardinality(Addressed) = 1
             /\ store = Before \ Addressed
     /\ LastOp \in {"PUT", "PATCH"} /\ Addressed = {}
          => /\ LastResp.status \in {400, 404}
             /\ store = Before
             /\ (/\ LastOp = "PUT" => ~IdMismatch(LastReq.param, LastReq.body)
                 /\ ~FilterCastFails(LastUrlId)
                 /\ ~HasCastError(CastBody(LastReq.body)))
                  => LastResp.status = 404

\* C12 witness: a PUT or PATCH answered 200 has rewritten one of two stored
\* records
WritesChangeOneRecordWitness ==
  /\ LastOp \in {"PUT", "PATCH"}
  /\ LastResp.status = 200
  /\ Cardinality(Before) = 2
  /\ store # Before

====
